---- MODULE Spec2Model ----
(***************************************************************************)
(* Model of the tic-tac-toe screen component gameHome.tsx: the outcome     *)
(* evaluator checkWinner, the alpha-beta search minimax, the move selector *)
(* getBestMove, and the GameHome controller (handleMove, restartGame,      *)
(* switchMode and the bot-move effect with its 800 ms timer).              *)
(*                                                                         *)
(* A board is a function 0..8 -> Mark, indexed as in the source.  The      *)
(* search functions mutate the array they are given, so their operators    *)
(* return the array's final contents next to the value they return.        *)
(***************************************************************************)
EXTENDS Integers, Sequences, FiniteSets

VARIABLES
    board,      \* useState board: the live board
    xTurn,      \* useState xTurn
    versusBot,  \* useState versusBot
    timers,     \* pending setTimeout callbacks of the bot effect, each the board it closed over
    followed,   \* history: every placement since the last fresh board was on getBestMove's cell
    arg,        \* the array handed to a direct call of one of the three functions
    call        \* the direct call made on arg, with its return value and the array afterwards

vars == <<board, xTurn, versusBot, timers, followed, arg, call>>

-----------------------------------------------------------------------------
(* Bounds *)

\* SearchBoards: boards with at most MaxEmpty empty cells
MaxEmpty == 3

-----------------------------------------------------------------------------
(* Values *)

Null == "null"
Mark == {"X", "O", Null}
Cells == 0..8

\* JS Infinity; every score lies in -10..10, so any larger number orders the same
Infinity == 100

Max(a, b) == IF a >= b THEN a ELSE b
Min(a, b) == IF a <= b THEN a ELSE b

EmptyBoard == [i \in Cells |-> Null]

-----------------------------------------------------------------------------
(* checkWinner *)

patterns ==
    << <<0, 1, 2>>, <<3, 4, 5>>, <<6, 7, 8>>,
       <<0, 3, 6>>, <<1, 4, 7>>, <<2, 5, 8>>,
       <<0, 4, 8>>, <<2, 4, 6>> >>

\* lineMatch without the comparison of the third cell
lineMatchTwoCells(cells, k) ==
    /\ cells[patterns[k][1]] # Null
    /\ cells[patterns[k][1]] = cells[patterns[k][2]]

\* the test of the for loop's body on line k
lineMatch(cells, k) ==
    /\ cells[patterns[k][1]] # Null
    /\ cells[patterns[k][1]] = cells[patterns[k][2]]
    /\ cells[patterns[k][1]] = cells[patterns[k][3]]

RECURSIVE scanPatterns(_, _)

\* scanPatterns with cells.some in place of cells.every
scanPatternsSome(cells, k) ==
    IF k > Len(patterns)
    THEN IF \E i \in Cells : cells[i] # Null THEN "draw" ELSE Null
    ELSE IF lineMatch(cells, k)
         THEN cells[patterns[k][1]]
         ELSE scanPatterns(cells, k + 1)

scanPatterns(cells, k) ==
    IF k > Len(patterns)
    THEN IF \A i \in Cells : cells[i] # Null THEN "draw" ELSE Null
    ELSE IF lineMatch(cells, k)
         THEN cells[patterns[k][1]]
         ELSE scanPatterns(cells, k + 1)

checkWinner(cells) == scanPatterns(cells, 1)

-----------------------------------------------------------------------------
(* minimax and getBestMove *)

\* board.map((val, i) => (val === null ? i : -1)).filter(i => i !== -1)
emptyCells(b) == SelectSeq([k \in 1..9 |-> k - 1], LAMBDA i : b[i] = Null)

\* The operators below return [score or move, board, calls, deep]: the value returned, the
\* contents of the array when the call returns, the number of calls of minimax made, and
\* the greatest number of nested calls of minimax below the caller (d: so far in a loop).

RECURSIVE minimax(_, _, _, _, _)
RECURSIVE maxLoop(_, _, _, _, _, _, _, _, _)
RECURSIVE minLoop(_, _, _, _, _, _, _, _, _)

\* maxLoop with the cut-off test placed before the undo
maxLoopLeak(b, depth, moves, k, maxEval, alpha, beta, n, d) ==
    IF k > Len(moves)
    THEN [score |-> maxEval, board |-> b, calls |-> n, deep |-> d]
    ELSE LET move     == moves[k]
             r        == minimax([b EXCEPT ![move] = "O"], depth + 1, FALSE, alpha, beta)
             undone   == [r.board EXCEPT ![move] = Null]
             newMax   == Max(maxEval, r.score)
             newAlpha == Max(alpha, r.score)
         IN  IF beta <= newAlpha
             THEN [score |-> newMax, board |-> r.board, calls |-> n + r.calls,
                   deep |-> Max(d, r.deep + 1)]
             ELSE maxLoop(undone, depth, moves, k + 1, newMax, newAlpha, beta, n + r.calls,
                          Max(d, r.deep + 1))

\* the for loop of the isCPU branch, from candidate k on (n: calls made so far)
maxLoop(b, depth, moves, k, maxEval, alpha, beta, n, d) ==
    IF k > Len(moves)
    THEN [score |-> maxEval, board |-> b, calls |-> n, deep |-> d]
    ELSE LET move     == moves[k]
             r        == minimax([b EXCEPT ![move] = "O"], depth + 1, FALSE, alpha, beta)
             undone   == [r.board EXCEPT ![move] = Null]
             newMax   == Max(maxEval, r.score)
             newAlpha == Max(alpha, r.score)
         IN  IF beta <= newAlpha
             THEN [score |-> newMax, board |-> undone, calls |-> n + r.calls,
                   deep |-> Max(d, r.deep + 1)]
             ELSE maxLoop(undone, depth, moves, k + 1, newMax, newAlpha, beta, n + r.calls,
                          Max(d, r.deep + 1))

\* minLoop with the cut-off test reversed (alpha <= beta)
minLoopReversedCut(b, depth, moves, k, minEval, alpha, beta, n, d) ==
    IF k > Len(moves)
    THEN [score |-> minEval, board |-> b, calls |-> n, deep |-> d]
    ELSE LET move    == moves[k]
             r       == minimax([b EXCEPT ![move] = "X"], depth + 1, TRUE, alpha, beta)
             undone  == [r.board EXCEPT ![move] = Null]
             newMin  == Min(minEval, r.score)
             newBeta == Min(beta, r.score)
         IN  IF alpha <= newBeta
             THEN [score |-> newMin, board |-> undone, calls |-> n + r.calls,
                   deep |-> Max(d, r.deep + 1)]
             ELSE minLoop(undone, depth, moves, k + 1, newMin, alpha, newBeta, n + r.calls,
                          Max(d, r.deep + 1))

\* the for loop of the else branch, from candidate k on (n: calls made so far)
minLoop(b, depth, moves, k, minEval, alpha, beta, n, d) ==
    IF k > Len(moves)
    THEN [score |-> minEval, board |-> b, calls |-> n, deep |-> d]
    ELSE LET move    == moves[k]
             r       == minimax([b EXCEPT ![move] = "X"], depth + 1, TRUE, alpha, beta)
             undone  == [r.board EXCEPT ![move] = Null]
             newMin  == Min(minEval, r.score)
             newBeta == Min(beta, r.score)
         IN  IF newBeta <= alpha
             THEN [score |-> newMin, board |-> undone, calls |-> n + r.calls,
                   deep |-> Max(d, r.deep + 1)]
             ELSE minLoop(undone, depth, moves, k + 1, newMin, alpha, newBeta, n + r.calls,
                          Max(d, r.deep + 1))

\* minimax with terminal scores that ignore depth (10, -10, 0)
minimaxNoDepth(b, depth, isCPU, alpha, beta) ==
    LET result == checkWinner(b) IN
    IF result = "O" THEN [score |-> 10, board |-> b, calls |-> 1, deep |-> 0]
    ELSE IF result = "X" THEN [score |-> -10, board |-> b, calls |-> 1, deep |-> 0]
    ELSE IF result = "draw" THEN [score |-> 0, board |-> b, calls |-> 1, deep |-> 0]
    ELSE IF isCPU
         THEN maxLoop(b, depth, emptyCells(b), 1, -Infinity, alpha, beta, 1, 0)
         ELSE minLoop(b, depth, emptyCells(b), 1, Infinity, alpha, beta, 1, 0)

\* minimax with the scores of the two winners exchanged
minimaxSwapped(b, depth, isCPU, alpha, beta) ==
    LET result == checkWinner(b) IN
    IF result = "O" THEN [score |-> depth - 10, board |-> b, calls |-> 1, deep |-> 0]
    ELSE IF result = "X" THEN [score |-> 10 - depth, board |-> b, calls |-> 1, deep |-> 0]
    ELSE IF result = "draw" THEN [score |-> 0, board |-> b, calls |-> 1, deep |-> 0]
    ELSE IF isCPU
         THEN maxLoop(b, depth, emptyCells(b), 1, -Infinity, alpha, beta, 1, 0)
         ELSE minLoop(b, depth, emptyCells(b), 1, Infinity, alpha, beta, 1, 0)

\* minimax without the base case of a win of X
minimaxNoXBase(b, depth, isCPU, alpha, beta) ==
    LET result == checkWinner(b) IN
    IF result = "O" THEN [score |-> 10 - depth, board |-> b, calls |-> 1, deep |-> 0]
    ELSE IF result = "draw" THEN [score |-> 0, board |-> b, calls |-> 1, deep |-> 0]
    ELSE IF isCPU
         THEN maxLoop(b, depth, emptyCells(b), 1, -Infinity, alpha, beta, 1, 0)
         ELSE minLoop(b, depth, emptyCells(b), 1, Infinity, alpha, beta, 1, 0)

minimax(b, depth, isCPU, alpha, beta) ==
    LET result == checkWinner(b) IN
    IF result = "O" THEN [score |-> 10 - depth, board |-> b, calls |-> 1, deep |-> 0]
    ELSE IF result = "X" THEN [score |-> depth - 10, board |-> b, calls |-> 1, deep |-> 0]
    ELSE IF result = "draw" THEN [score |-> 0, board |-> b, calls |-> 1, deep |-> 0]
    ELSE IF isCPU
         THEN maxLoop(b, depth, emptyCells(b), 1, -Infinity, alpha, beta, 1, 0)
         ELSE minLoop(b, depth, emptyCells(b), 1, Infinity, alpha, beta, 1, 0)

RECURSIVE bestLoop(_, _, _, _, _, _, _)

\* bestLoop with >= in place of >
bestLoopGeq(b, candidates, k, topScore, bestMove, n, d) ==
    IF k > Len(candidates)
    THEN [move |-> bestMove, board |-> b, calls |-> n, deep |-> d]
    ELSE LET i      == candidates[k]
             r      == minimax([b EXCEPT ![i] = "O"], 0, FALSE, -Infinity, Infinity)
             undone == [r.board EXCEPT ![i] = Null]
         IN  IF r.score >= topScore
             THEN bestLoop(undone, candidates, k + 1, r.score, i, n + r.calls,
                          Max(d, r.deep + 1))
             ELSE bestLoop(undone, candidates, k + 1, topScore, bestMove, n + r.calls,
                          Max(d, r.deep + 1))

\* the for loop of getBestMove, from candidate k on (n: calls of minimax made so far)
bestLoop(b, candidates, k, topScore, bestMove, n, d) ==
    IF k > Len(candidates)
    THEN [move |-> bestMove, board |-> b, calls |-> n, deep |-> d]
    ELSE LET i      == candidates[k]
             r      == minimax([b EXCEPT ![i] = "O"], 0, FALSE, -Infinity, Infinity)
             undone == [r.board EXCEPT ![i] = Null]
         IN  IF r.score > topScore
             THEN bestLoop(undone, candidates, k + 1, r.score, i, n + r.calls,
                          Max(d, r.deep + 1))
             ELSE bestLoop(undone, candidates, k + 1, topScore, bestMove, n + r.calls,
                          Max(d, r.deep + 1))

\* getBestMove with topScore starting at +Infinity
getBestMoveTopInfinity(currentBoard) ==
    bestLoop(currentBoard, emptyCells(currentBoard), 1, Infinity, 0, 0, 0)

getBestMove(currentBoard) ==
    bestLoop(currentBoard, emptyCells(currentBoard), 1, -Infinity, 0, 0, 0)

-----------------------------------------------------------------------------
(* GameHome *)

\* const winner = checkWinner(board), recomputed on every render
winner == checkWinner(board)

\* botEffect without the versusBot test
botEffectAnyMode(b, xt, vb) ==
    IF ~xt /\ checkWinner(b) = Null /\ (\E i \in Cells : b[i] = Null)
    THEN {b}
    ELSE {}

\* botEffect with winner in place of !winner
botEffectWhenOver(b, xt, vb) ==
    IF vb /\ ~xt /\ checkWinner(b) # Null /\ (\E i \in Cells : b[i] = Null)
    THEN {b}
    ELSE {}

\* the bot effect as run after a render with state (b, xt, vb): the timeouts pending afterwards
\* (the previous run's cleanup has cleared the one it set)
botEffect(b, xt, vb) ==
    IF vb /\ ~xt /\ checkWinner(b) = Null /\ (\E i \in Cells : b[i] = Null)
    THEN {b}
    ELSE {}

NoCall == [op |-> "none"]

Init ==
    /\ board = EmptyBoard
    /\ xTurn = TRUE
    /\ versusBot = TRUE
    /\ timers = botEffect(EmptyBoard, TRUE, TRUE)
    /\ followed = TRUE
    /\ arg = EmptyBoard
    /\ call = NoCall

\* handleMove without the versusBot && !xTurn test
handleMoveAtOnBotTurn(index, hint) ==
    IF board[index] # Null \/ winner # Null
    THEN UNCHANGED <<board, xTurn, versusBot, timers, followed>>
    ELSE LET next == [board EXCEPT ![index] = IF xTurn THEN "X" ELSE "O"] IN
         /\ board' = next
         /\ xTurn' = ~xTurn
         /\ UNCHANGED versusBot
         /\ timers' = botEffect(next, ~xTurn, versusBot)
         /\ followed' = (followed /\ index = hint)

\* handleMove without the winner test
handleMoveAtAfterEnd(index, hint) ==
    IF board[index] # Null
    THEN UNCHANGED <<board, xTurn, versusBot, timers, followed>>
    ELSE IF versusBot /\ ~xTurn
    THEN UNCHANGED <<board, xTurn, versusBot, timers, followed>>
    ELSE LET next == [board EXCEPT ![index] = IF xTurn THEN "X" ELSE "O"] IN
         /\ board' = next
         /\ xTurn' = ~xTurn
         /\ UNCHANGED versusBot
         /\ timers' = botEffect(next, ~xTurn, versusBot)
         /\ followed' = (followed /\ index = hint)

\* handleMove(index); hint is getBestMove's cell for the live board while followed holds
handleMoveAt(index, hint) ==
    IF board[index] # Null \/ winner # Null
    THEN UNCHANGED <<board, xTurn, versusBot, timers, followed>>
    ELSE IF versusBot /\ ~xTurn
    THEN UNCHANGED <<board, xTurn, versusBot, timers, followed>>
    ELSE LET next == [board EXCEPT ![index] = IF xTurn THEN "X" ELSE "O"] IN
         /\ board' = next
         /\ xTurn' = ~xTurn
         /\ UNCHANGED versusBot
         /\ timers' = botEffect(next, ~xTurn, versusBot)
         /\ followed' = (followed /\ index = hint)

handleMove ==
    /\ \E hint \in {IF followed /\ winner = Null THEN getBestMove(board).move ELSE 0} :
         \E index \in Cells : handleMoveAt(index, hint)
    /\ UNCHANGED <<arg, call>>

\* the timeout callback of the bot effect
botMove ==
    /\ UNCHANGED <<versusBot, followed, arg, call>>
    /\ xTurn' = TRUE
    /\ \E b \in timers :
         LET botMove_ == getBestMove(b).move
             updated  == [b EXCEPT ![botMove_] = "O"]
         IN  /\ board' = updated
             /\ timers' = botEffect(updated, TRUE, versusBot)

\* restartGame without setXTurn(true)
restartGameKeepTurn ==
    /\ winner # Null
    /\ board' = EmptyBoard
    /\ timers' = botEffect(EmptyBoard, xTurn, versusBot)
    /\ followed' = TRUE
    /\ UNCHANGED <<xTurn, versusBot, arg, call>>

\* the New Game button, rendered once the game is over
restartGame ==
    /\ winner # Null
    /\ board' = EmptyBoard
    /\ xTurn' = TRUE
    /\ timers' = botEffect(EmptyBoard, TRUE, versusBot)
    /\ followed' = TRUE
    /\ UNCHANGED <<versusBot, arg, call>>

\* switchMode with the pending timeout left uncleared
switchModeNoCleanup ==
    /\ versusBot' = ~versusBot
    /\ board' = EmptyBoard
    /\ xTurn' = TRUE
    /\ timers' = timers \cup botEffect(EmptyBoard, TRUE, ~versusBot)
    /\ followed' = TRUE
    /\ UNCHANGED <<arg, call>>

\* switchMode without the call of restartGame
switchModeKeepBoard ==
    /\ versusBot' = ~versusBot
    /\ timers' = botEffect(board, xTurn, ~versusBot)
    /\ followed' = FALSE
    /\ UNCHANGED <<board, xTurn, arg, call>>

switchMode ==
    /\ versusBot' = ~versusBot
    /\ board' = EmptyBoard
    /\ xTurn' = TRUE
    /\ timers' = botEffect(EmptyBoard, TRUE, ~versusBot)
    /\ followed' = TRUE
    /\ UNCHANGED <<arg, call>>

Next == handleMove \/ botMove \/ restartGame \/ switchMode

Spec == Init /\ [][Next]_vars

\* a timeout that is set and not cleared fires after its 800 ms. This is WF_vars(botMove)
\* written out: botMove is enabled exactly when a callback is pending (timers # {}), so weak
\* fairness says that infinitely often no callback is pending or infinitely often one runs.
FairSpec == Spec /\ ([]<>(timers = {}) \/ []<><<botMove>>_vars)

-----------------------------------------------------------------------------
(* Direct calls of the three functions on an array arg *)

Controller0 ==
    /\ board = EmptyBoard
    /\ xTurn = TRUE
    /\ versusBot = TRUE
    /\ timers = {}
    /\ followed = TRUE

CountEmpty(b) == Cardinality({i \in Cells : b[i] = Null})

\* [O,O,_,X,X,_,_,_,_]
Scenario4 == [i \in Cells |-> IF i \in {0, 1} THEN "O" ELSE IF i \in {3, 4} THEN "X" ELSE Null]

AllBoards == [Cells -> Mark]
CountOf(b, m) == Cardinality({i \in Cells : b[i] = m})

\* boards with one more empty cell on which it is O's turn (X has placed once more than O),
\* the boards the bot callback hands to getBestMove
BotTurnBoards ==
    {b \in AllBoards : CountEmpty(b) = MaxEmpty + 1 /\ CountOf(b, "X") = CountOf(b, "O") + 1}

SearchBoards == {b \in AllBoards : CountEmpty(b) <= MaxEmpty} \cup BotTurnBoards \cup {Scenario4}

\* depth, alpha and beta of the direct calls of minimax
Depths == {0, 1}
Alphas == {-Infinity, 0}
Betas == {0, Infinity}

callCheckWinner ==
    /\ call = NoCall
    /\ call' = [op |-> "checkWinner", ret |-> checkWinner(arg)]
    /\ UNCHANGED <<board, xTurn, versusBot, timers, followed, arg>>

callMinimax ==
    /\ call = NoCall
    /\ \E depth \in Depths, isCPU \in BOOLEAN, alpha \in Alphas, beta \in Betas :
         LET r == minimax(arg, depth, isCPU, alpha, beta) IN
         call' = [op |-> "minimax", depth |-> depth, isCPU |-> isCPU, alpha |-> alpha,
                  beta |-> beta, ret |-> r.score, after |-> r.board, calls |-> r.calls,
                  deep |-> r.deep]
    /\ UNCHANGED <<board, xTurn, versusBot, timers, followed, arg>>

callGetBestMove ==
    /\ call = NoCall
    /\ LET r == getBestMove(arg) IN
       call' = [op |-> "getBestMove", ret |-> r.move, after |-> r.board, calls |-> r.calls,
                deep |-> r.deep]
    /\ UNCHANGED <<board, xTurn, versusBot, timers, followed, arg>>

InitEval == Controller0 /\ arg \in AllBoards /\ call = NoCall
SpecEval == InitEval /\ [][callCheckWinner]_vars

InitSearch == Controller0 /\ arg \in SearchBoards /\ call = NoCall
NextSearch == callMinimax \/ callGetBestMove
SpecSearch == InitSearch /\ [][NextSearch]_vars

-----------------------------------------------------------------------------
(* Vocabulary of the properties *)

\* the 8 win-lines in the stated order: rows, then columns, then diagonals
WinLines ==
    << {0, 1, 2}, {3, 4, 5}, {6, 7, 8},
       {0, 3, 6}, {1, 4, 7}, {2, 5, 8},
       {0, 4, 8}, {2, 4, 6} >>

\* line k holds three equal non-empty marks
Completed(b, k) == \E m \in {"X", "O"} : \A i \in WinLines[k] : b[i] = m
\* the mark on completed line k
MarkOf(b, k) == CHOOSE m \in {"X", "O"} : \A i \in WinLines[k] : b[i] = m
AnyCompleted(b) == \E k \in 1..8 : Completed(b, k)
FirstCompleted(b) == CHOOSE k \in 1..8 : Completed(b, k) /\ \A j \in 1..(k - 1) : ~Completed(b, j)

Place(b, i, m) == [b EXCEPT ![i] = m]

\* the empty cells on which mark m completes a line
WinningCells(b, m) ==
    {i \in Cells : b[i] = Null /\ \E k \in 1..8 : i \in WinLines[k] /\ Completed(Place(b, i, m), k)}

\* O on cell i removes a one-move win of X
Blocks(b, i) == \E w \in WinningCells(b, "X") : w \notin WinningCells(Place(b, i, "O"), "X")

SetMax(S) == CHOOSE x \in S : \A y \in S : y <= x
SetMin(S) == CHOOSE x \in S : \A y \in S : x <= y

\* minimax without the cut-off: the plain minimax value
RECURSIVE PlainValue(_, _, _)
PlainValue(b, depth, isCPU) ==
    IF AnyCompleted(b)
    THEN IF MarkOf(b, FirstCompleted(b)) = "O" THEN 10 - depth ELSE depth - 10
    ELSE IF CountEmpty(b) = 0 THEN 0
    ELSE LET vals == {PlainValue(Place(b, i, IF isCPU THEN "O" ELSE "X"), depth + 1, ~isCPU) :
                        i \in {j \in Cells : b[j] = Null}}
         IN  IF isCPU THEN SetMax(vals) ELSE SetMin(vals)

\* the number of positions plain minimax visits
RECURSIVE PlainCalls(_, _)
PlainCalls(b, isCPU) ==
    IF AnyCompleted(b) \/ CountEmpty(b) = 0 THEN 1
    ELSE LET RECURSIVE Sum(_)
             Sum(S) == IF S = {} THEN 0
                       ELSE LET j == CHOOSE x \in S : TRUE
                            IN  PlainCalls(Place(b, j, IF isCPU THEN "O" ELSE "X"), ~isCPU)
                                + Sum(S \ {j})
         IN  1 + Sum({j \in Cells : b[j] = Null})

\* the search score of cell i: minimax after placing O there, depth 0, X to move
SearchScore(b, i) == minimax(Place(b, i, "O"), 0, FALSE, -Infinity, Infinity).score

\* [X,O,X,O,X,O,O,X,O]
Scenario3 == [i \in Cells |-> IF i \in {0, 2, 4, 7} THEN "X" ELSE "O"]

FullWindow == call.op = "minimax" /\ call.alpha = -Infinity /\ call.beta = Infinity

-----------------------------------------------------------------------------
(* Properties *)

\* C1: minimax (any depth, side, alpha, beta) and getBestMove leave the array they were given
\* cell-for-cell equal to its contents before the call, cut-off paths included.
C1_BoardRestored ==
    call.op \in {"minimax", "getBestMove"} => call.after = arg

\* C1 witness: a call of minimax on an ongoing board with two or more empty cells and
\* beta <= alpha from the start, so the loop is left by the cut-off after its first candidate.
C1_Witness ==
    /\ call.op = "minimax"
    /\ call.beta <= call.alpha
    /\ checkWinner(arg) = Null
    /\ CountEmpty(arg) >= 2
    /\ call.calls < PlainCalls(arg, call.isCPU)
    /\ call.after = arg

\* C2: with alpha = -Infinity and beta = +Infinity minimax returns the plain minimax value,
\* for either side to move.
C2_PruningKeepsValue ==
    FullWindow => call.ret = PlainValue(arg, call.depth, call.isCPU)

\* C2 witness: a full-window call in which the cut-off skipped positions.
C2_Witness ==
    /\ FullWindow
    /\ call.calls < PlainCalls(arg, call.isCPU)
    /\ call.ret = PlainValue(arg, call.depth, call.isCPU)

\* C3: on an ongoing board where some empty cell completes an O line, getBestMove returns
\* such a cell; on [O,O,_,X,X,_,_,_,_] it returns 2.
C3_ImmediateWin ==
    call.op = "getBestMove" =>
        /\ (checkWinner(arg) = Null /\ WinningCells(arg, "O") # {}) =>
               call.ret \in WinningCells(arg, "O")
        /\ arg = Scenario4 => call.ret = 2

\* C3 witness: the scenario board, where X threatens cell 5 and O wins on cell 2.
C3_Witness ==
    /\ call.op = "getBestMove"
    /\ arg = Scenario4
    /\ 5 \in WinningCells(arg, "X")
    /\ call.ret = 2

\* C4 as stated: on an ongoing board where X has a one-move win and O has none, getBestMove
\* returns a cell that blocks an X win, however many winning cells X has.
C4_ForcedBlock ==
    (/\ call.op = "getBestMove"
     /\ checkWinner(arg) = Null
     /\ WinningCells(arg, "X") # {}
     /\ WinningCells(arg, "O") = {}) => Blocks(arg, call.ret)

\* C4 amended: on an ongoing board where X has exactly one cell completing an X line and O
\* has no cell completing an O line, getBestMove returns that cell.
C4_SingleThreatBlocked ==
    (/\ call.op = "getBestMove"
     /\ checkWinner(arg) = Null
     /\ Cardinality(WinningCells(arg, "X")) = 1
     /\ WinningCells(arg, "O") = {}) => WinningCells(arg, "X") = {call.ret}

\* C4 witness: a single X threat on a cell that is not the lowest empty one, blocked.
C4_Witness ==
    /\ call.op = "getBestMove"
    /\ checkWinner(arg) = Null
    /\ Cardinality(WinningCells(arg, "X")) = 1
    /\ WinningCells(arg, "O") = {}
    /\ \E i \in Cells : arg[i] = Null /\ i < call.ret
    /\ Blocks(arg, call.ret)

\* C5 as stated: on a full board, or one checkWinner reports won or drawn, getBestMove does
\* not return an ordinary cell index.
C5_FailsExplicitly ==
    (/\ call.op = "getBestMove"
     /\ (CountEmpty(arg) = 0 \/ checkWinner(arg) # Null)) => call.ret \notin Cells

\* C6: from the empty board, when every placement is on the cell getBestMove returns for the
\* current board, a finished game is a draw.
C6_SelfPlayDraw ==
    (followed /\ winner # Null) => winner = "draw"

\* C6 witness: such a game played to its end.
C6_Witness ==
    followed /\ CountEmpty(board) = 0 /\ winner = "draw"

\* C7: on a board with a completed line checkWinner returns the mark of the first completed
\* line in the order rows, columns, diagonals; with lines of one mark only, that mark.
C7_FirstLineWins ==
    (call.op = "checkWinner" /\ AnyCompleted(arg)) =>
        /\ call.ret = MarkOf(arg, FirstCompleted(arg))
        /\ \A m \in {"X", "O"} :
             (\A k \in 1..8 : Completed(arg, k) => MarkOf(arg, k) = m) => call.ret = m

\* C7 witness: lines of both marks, the later one in the order belonging to the other mark.
C7_Witness ==
    /\ call.op = "checkWinner"
    /\ \E j, k \in 1..8 : /\ j < k
                          /\ Completed(arg, j) /\ Completed(arg, k)
                          /\ MarkOf(arg, j) # MarkOf(arg, k)
                          /\ call.ret = MarkOf(arg, j)
                          /\ \A h \in 1..(j - 1) : ~Completed(arg, h)

\* C8: on a board with no completed line checkWinner returns 'draw' exactly when no cell is
\* empty and null exactly when some cell is; the empty board is ongoing, scenario 3 a draw.
C8_DrawOrOngoing ==
    (call.op = "checkWinner" /\ ~AnyCompleted(arg)) =>
        /\ call.ret = "draw" <=> CountEmpty(arg) = 0
        /\ call.ret = Null <=> CountEmpty(arg) >= 1
        /\ arg = EmptyBoard => call.ret = Null
        /\ arg = Scenario3 => call.ret = "draw"

\* C8 witness: scenario 3 evaluated.
C8_Witness ==
    call.op = "checkWinner" /\ arg = Scenario3 /\ ~AnyCompleted(arg) /\ call.ret = "draw"

\* the empty cells of b whose search score is maximal
BestCells(b) ==
    LET empties == {i \in Cells : b[i] = Null}
        score   == [i \in empties |-> SearchScore(b, i)]
    IN  {i \in empties : \A j \in empties : score[j] <= score[i]}

\* C9: on an ongoing board getBestMove returns the lowest-index empty cell among those of
\* maximal search score, a function of the board's contents alone.
C9_LowestBestCell ==
    (call.op = "getBestMove" /\ checkWinner(arg) = Null) => call.ret = SetMin(BestCells(arg))

\* C9 witness: a tie between cells of maximal score, resolved to the lowest index.
C9_Witness ==
    /\ call.op = "getBestMove"
    /\ checkWinner(arg) = Null
    /\ Cardinality(BestCells(arg)) >= 2
    /\ call.ret = SetMin(BestCells(arg))

\* C10: a bot-move callback, the only caller of getBestMove, is pending only in vs-computer
\* mode, on O's turn, on the live board, while that board is ongoing and has an empty cell.
C10_BotCallGuarded ==
    \A b \in timers :
        /\ versusBot
        /\ ~xTurn
        /\ b = board
        /\ checkWinner(b) = Null
        /\ CountEmpty(b) >= 1

\* C10 witness: a callback pending after the computer has already moved once.
C10_Witness ==
    /\ timers # {}
    /\ \E i \in Cells : board[i] = "O"

\* C11: on an ongoing board with an empty cell getBestMove returns an index in 0..8 whose
\* cell is empty on that board, so placing O there overwrites no mark.
C11_ReturnsEmptyCell ==
    (call.op = "getBestMove" /\ checkWinner(arg) = Null) =>
        /\ call.ret \in Cells
        /\ arg[call.ret] = Null
        /\ CountEmpty(Place(arg, call.ret, "O")) = CountEmpty(arg) - 1

\* C11 witness: cell 0, the initial value of bestMove, is occupied and an empty cell is returned.
C11_Witness ==
    /\ call.op = "getBestMove"
    /\ checkWinner(arg) = Null
    /\ arg[0] # Null
    /\ arg[call.ret] = Null

\* C12: in vs-computer mode no reachable live board is won by X.
C12_ComputerNeverLoses ==
    versusBot => winner # "X"

\* C12 witness: a vs-computer game the human played to its end.
C12_Witness ==
    /\ versusBot
    /\ winner \in {"O", "draw"}
    /\ Cardinality({i \in Cells : board[i] = "O"}) >= 3

Other(m) == IF m = "O" THEN "X" ELSE "O"
Empties(b) == {i \in Cells : b[i] = Null}

\* player m can force a completed line of its mark within n further placements on board b,
\* where mover places next
RECURSIVE CanForce(_, _, _, _)
CanForce(m, b, mover, n) ==
    IF AnyCompleted(b) THEN \A k \in 1..8 : Completed(b, k) => MarkOf(b, k) = m
    ELSE IF n = 0 \/ Empties(b) = {} THEN FALSE
    ELSE IF mover = m
         THEN \E i \in Empties(b) : CanForce(m, Place(b, i, mover), Other(mover), n - 1)
         ELSE \A i \in Empties(b) : CanForce(m, Place(b, i, mover), Other(mover), n - 1)

Wins(m, b, mover) == CanForce(m, b, mover, CountEmpty(b))

\* the fewest placements within which m forces its line (where Wins(m, b, mover))
Plies(m, b, mover) == SetMin({n \in 0..CountEmpty(b) : CanForce(m, b, mover, n)})

\* C13: if O can force a win from the board, getBestMove returns a move after which the win
\* is forced in the fewest placements possible; if every move loses against best play by X,
\* it returns a move after which X needs the most placements to force its win.
C13_FastWinSlowLoss ==
    (call.op = "getBestMove" /\ checkWinner(arg) = Null) =>
        /\ Wins("O", arg, "O") =>
               CanForce("O", Place(arg, call.ret, "O"), "X", Plies("O", arg, "O") - 1)
        /\ (\A i \in Empties(arg) : Wins("X", Place(arg, i, "O"), "X")) =>
               \A i \in Empties(arg) :
                   Plies("X", Place(arg, call.ret, "O"), "X") >= Plies("X", Place(arg, i, "O"), "X")

\* C13 witness: every move loses, some moves lose sooner than others, and the move
\* returned is one of the slowest.
C13_Witness ==
    /\ call.op = "getBestMove"
    /\ checkWinner(arg) = Null
    /\ \A i \in Empties(arg) : Wins("X", Place(arg, i, "O"), "X")
    /\ \E i \in Empties(arg) :
           Plies("X", Place(arg, i, "O"), "X") < Plies("X", Place(arg, call.ret, "O"), "X")
    /\ \A i \in Empties(arg) :
           Plies("X", Place(arg, call.ret, "O"), "X") >= Plies("X", Place(arg, i, "O"), "X")

\* a forced win of O that is not immediate, with a slower winning move also available
C13_WinCase ==
    /\ call.op = "getBestMove"
    /\ checkWinner(arg) = Null
    /\ Wins("O", arg, "O")
    /\ \E i \in Empties(arg) : /\ Wins("O", Place(arg, i, "O"), "X")
                               /\ ~CanForce("O", Place(arg, i, "O"), "X", Plies("O", arg, "O") - 1)
    /\ CanForce("O", Place(arg, call.ret, "O"), "X", Plies("O", arg, "O") - 1)

CompletedLines(b) == {k \in 1..8 : Completed(b, k)}

\* C14 as stated: on every live board at most one of the 8 win-lines is completed.
C14_AtMostOneLine ==
    Cardinality(CompletedLines(board)) <= 1

\* C14 amended: on every live board at most two win-lines are completed, and they hold the
\* same mark and share a cell (one placement completed both).
C14_OneWinner ==
    /\ Cardinality(CompletedLines(board)) <= 2
    /\ \A j, k \in CompletedLines(board) :
           /\ MarkOf(board, j) = MarkOf(board, k)
           /\ WinLines[j] \cap WinLines[k] # {}

\* C14 witness: a live board with two completed lines.
C14_Witness ==
    Cardinality(CompletedLines(board)) = 2

\* C15: the live board has 9 cells; X has placed as many marks as O or one more, and xTurn
\* holds exactly when the two counts are equal.
C15_AlternatingTurns ==
    /\ DOMAIN board = Cells
    /\ \A i \in Cells : board[i] \in Mark
    /\ CountOf(board, "X") - CountOf(board, "O") \in {0, 1}
    /\ xTurn <=> CountOf(board, "X") = CountOf(board, "O")

\* C15 witness: two-player mode, three marks placed by taps, O to move.
C15_Witness ==
    /\ ~versusBot
    /\ CountOf(board, "X") = 2
    /\ CountOf(board, "O") = 1
    /\ ~xTurn

\* a tap on cell index handled by handleMove
TapStep(index) == \E hint \in Cells : handleMoveAt(index, hint)

\* the three early returns of handleMove
TapIgnored(index) == board[index] # Null \/ winner # Null \/ (versusBot /\ ~xTurn)

\* C16: a tap on an occupied cell, after the game has ended, or on the computer's turn
\* changes neither board, turn nor mode; no step overwrites a mark, and once the game has
\* ended the board changes only by being reset to the empty board.
C16_IgnoredTaps ==
    [][/\ \A index \in Cells :
              (TapStep(index) /\ TapIgnored(index)) => UNCHANGED <<board, xTurn, versusBot>>
       /\ \A i \in Cells :
              board[i] # Null => (board'[i] = board[i] \/ board' = EmptyBoard)
       /\ winner # Null => (board' = board \/ board' = EmptyBoard)]_vars

\* C16 witness: a won game with an empty cell left, where a tap on that cell is ignored.
C16_Witness ==
    /\ winner \in {"X", "O"}
    /\ CountEmpty(board) >= 1
    /\ \E index \in Cells : board[index] = Null /\ TapIgnored(index)

\* C17: at most one bot callback is pending and it closed over the live board; a step that
\* changes board, turn or mode leaves pending only a callback for the new live board; the
\* callback writes exactly one O on an empty cell of the live board and leaves no callback
\* pending.
C17_TimerBoundToBoard ==
    [][/\ Cardinality(timers) <= 1
       /\ timers \subseteq {board}
       /\ <<board, xTurn, versusBot>>' # <<board, xTurn, versusBot>> =>
              (Cardinality(timers') <= 1 /\ timers' \subseteq {board'})
       /\ (versusBot' = versusBot /\ xTurn' /\ botMove) =>
              /\ \E i \in Cells : board[i] = Null /\ board' = Place(board, i, "O")
              /\ timers' = {}]_vars

\* C17 witness: vs-computer mode after a bot move, X to move and no callback pending.
C17_Witness ==
    /\ versusBot
    /\ xTurn
    /\ winner = Null
    /\ timers = {}
    /\ CountOf(board, "O") >= 1

\* the computer is to move on an ongoing board with an empty cell
BotToMove == versusBot /\ ~xTurn /\ winner = Null /\ CountEmpty(board) >= 1

\* C18: whenever the computer is to move, the turn eventually returns to X, and the only
\* steps from there are a mode switch or the placement of exactly one O that hands the
\* turn to X; a board with 9 placements is a win or a draw.
C18_BotEventuallyMoves ==
    /\ BotToMove ~> xTurn
    /\ [][BotToMove => \/ versusBot' # versusBot
                       \/ /\ CountOf(board', "O") = CountOf(board, "O") + 1
                          /\ CountOf(board', "X") = CountOf(board, "X")
                          /\ xTurn']_vars
    /\ [](CountEmpty(board) = 0 => winner # Null)

\* C18 witness: the computer to move for the second time in a game.
C18_Witness ==
    /\ BotToMove
    /\ timers = {board}
    /\ CountEmpty(board) = 6

\* C19: a step that starts a new game from a finished one leaves an empty board with X to
\* move and the mode as it was or flipped; a step that flips the mode always leaves an
\* empty board with X to move and no bot callback pending, and the mode changes in no
\* other way.
C19_ResetAndSwitch ==
    [][/\ (winner # Null /\ <<board, xTurn, versusBot>>' # <<board, xTurn, versusBot>>) =>
              (board' = EmptyBoard /\ xTurn' /\ timers' = {})
       /\ (winner # Null /\ board' # board /\ ~switchMode) => versusBot' = versusBot
       /\ versusBot' # versusBot =>
              (board' = EmptyBoard /\ xTurn' /\ timers' = {})]_vars

\* C19 witness: a fresh two-player game, which only a mode switch produces.
C19_Witness ==
    /\ ~versusBot
    /\ board = EmptyBoard
    /\ xTurn
    /\ timers = {}

\* a board on which the game is over: a completed line or no empty cell
Terminal(b) == AnyCompleted(b) \/ CountEmpty(b) = 0

\* C20: every call of minimax and getBestMove returns, having nested at most as many calls
\* of minimax as the board has empty cells; minimax on a terminal board makes no further
\* call, and on any other board it makes at least one.
C20_DepthBounded ==
    /\ call.op \in {"minimax", "getBestMove"} =>
           /\ call.deep \in 0..CountEmpty(arg)
           /\ call.calls >= call.deep
    /\ call.op = "minimax" =>
           IF Terminal(arg)
           THEN call.calls = 1 /\ call.deep = 0
           ELSE call.calls > 1 /\ call.deep >= 1

\* C20 witness: a search that nests as deep as the board has empty cells.
C20_Witness ==
    /\ call.op = "minimax"
    /\ CountEmpty(arg) = MaxEmpty
    /\ call.deep = MaxEmpty

====
